---- MODULE Spec2Model ----
(***************************************************************************)
(* The compilation pipeline driver of onyx.c: the boot sequence of         *)
(* context_init, the phase dispatcher process_entity, the load expander    *)
(* process_load_entity / process_source_file, the cycle detector of        *)
(* onyx_compile with dump_cycles, and the part of main that follows a      *)
(* compilation.  The entity heap, the entity states and the collaborators  *)
(* (parser, symbol resolver, type checker, code emitter) live outside      *)
(* onyx.c; they are modelled by the contract the specification gives.      *)
(***************************************************************************)
EXTENDS Integers, Sequences, FiniteSets, TLC

VARIABLES
    options,        \* context.options: action, runtime, no_core, files
    fs,             \* the paths bh_file_open can open
    entities,       \* id -> Entity (state, type, macro_attempts, file, origin)
    heap,           \* context.entities: id -> number of copies in the heap
    loaded_files,   \* context.loaded_files, in registration order
    errors,         \* the error queue behind onyx_report_error
    cycle_detected,
    cycle_almost_detected,
    watermarked_node,
    highest_watermark,
    builtins_initialized,
    special_global_entities_remaining,
    pc,             \* position of main / onyx_compile
    cur_ent,        \* onyx_compile's local ent while dump_cycles runs
    result,         \* compiler_progress of main
    output,         \* files created by onyx_flush_module
    parsed,         \* path -> number of times parse_source_file ran on it
    stalled,        \* ids dispatched without change since the last changing dispatch
    stall_laps,     \* stall laps counted since the last changing dispatch
    last,           \* what the most recent dispatch did
    prev,           \* key of the dispatch before it, and what that one inserted
    flush_result,   \* what onyx_flush_module returned, NotCalled before it ran
    compilations,   \* number of do_compilation calls so far
    lazy_inits,     \* runs of the lazy initialization in this compilation
    special_inits,  \* calls of initalize_special_globals in this compilation
    written,        \* the files onyx_flush_module wrote, in order
    closed,         \* file -> number of bh_file_close calls of onyx_flush_module
    live,           \* the scratch arena and the managed heap are initialized
    cleanups,       \* calls of cleanup_compilation since the last do_compilation
    argv,           \* main's argv[1 .. argc - 1]
    arg_i,          \* the index compile_opts_parse looks at
    parse_pc,       \* position of compile_opts_parse
    compile_opts,   \* the CompileOptions compile_opts_parse fills in
    parse_out       \* what compile_opts_parse printed

vars == << options, fs, entities, heap, loaded_files, errors, cycle_detected,
           cycle_almost_detected, watermarked_node, highest_watermark,
           builtins_initialized, special_global_entities_remaining, pc,
           cur_ent, result, output, parsed, stalled, stall_laps, last, prev,
           flush_result, compilations, lazy_inits, special_inits,
           written, closed, live, cleanups,
           argv, arg_i, parse_pc, compile_opts, parse_out >>

flush_vars == << written, closed >>

cleanup_vars == << live, cleanups >>

parse_vars == << argv, arg_i, parse_pc, compile_opts, parse_out >>

----------------------------------------------------------------------------
(* Bounds of the model *)

\* macro_attempts is represented exactly below MaxAttempts; MaxAttempts
\* stands for "MaxAttempts or more".
MaxAttempts == 2
\* entities the parser and the collaborators create after the boot sequence
MaxCreated == 1
\* stall laps are counted up to MaxLaps ("MaxLaps or more")
MaxLaps == 5
\* compilations of one watch session
MaxCompilations == 2
\* the initializations of one compilation are counted up to MaxInits
MaxInits == 2
\* arguments after the subcommand
MaxArgs == 3

----------------------------------------------------------------------------
(* EntityState, in dispatch priority order *)

Entity_State_Error             == 0
Entity_State_Parse_Builtin     == 1
Entity_State_Parse             == 2
Entity_State_Introduce_Symbols == 3
Entity_State_Resolve_Symbols   == 4
Entity_State_Check_Types       == 5
Entity_State_Code_Gen          == 6
Entity_State_Finalized         == 7
Entity_State_Failed            == 8

EntityStates == Entity_State_Error .. Entity_State_Failed

\* CompilerProgress
ONYX_COMPILER_PROGRESS_ERROR         == 0
ONYX_COMPILER_PROGRESS_FAILED_OUTPUT == 1
ONYX_COMPILER_PROGRESS_SUCCESS       == 2

\* static u32 special_global_entities_remaining, kept as its 32-bit pattern read
\* as a signed number: the value after 0 is decremented, 4294967295, is -1
DecU32(x) == x - 1

NoEntity == -1

\* onyx_flush_module has not been called
NotCalled == -1

CorePaths == << "core/builtin", "core/runtime/build_opts" >>

RuntimeInfoPaths ==
    << "core/runtime/info/types", "core/runtime/info/foreign_blocks",
       "core/runtime/info/proc_tags", "core/runtime/info/global_tags",
       "core/runtime/info/stack_trace" >>

BuiltinGlobals ==
    << "builtin_stack_top", "builtin_heap_start", "builtin_tls_base",
       "builtin_tls_size", "builtin_closure_base", "builtin_stack_trace" >>

CoreModulePath == "core/module"

UserPaths == { "a.onyx", "x.onyx" }

Range(s) == { s[i] : i \in DOMAIN s }

\* the folder a #load_all directive names, and the folder inside it
LoadAllFolder == "lib"
SubFolder == "lib/sub"
Folders == { LoadAllFolder, SubFolder }

\* bh_dir_read: the .onyx files of a folder, in the order they are read
DirFiles(folder) == IF folder = LoadAllFolder THEN << "lib/f.onyx" >> ELSE << >>

\* bh_dir_read: the folders of a folder, "." and ".." left out
DirFolders(folder) == IF folder = LoadAllFolder THEN << SubFolder >> ELSE << >>

AllPaths ==
    Range(CorePaths) \cup Range(RuntimeInfoPaths) \cup {CoreModulePath} \cup UserPaths
    \cup UNION { Range(DirFiles(d)) : d \in Folders }

\* every file and folder of the model
FileSystem == AllPaths \cup Folders

\* the sets of paths that cannot be opened
MissingSets ==
    { {}, { "a.onyx" }, { "x.onyx" }, { "core/runtime/build_opts" }, { "core/runtime/info/types" },
      { LoadAllFolder }, { SubFolder } }

\* the source files given on the command line
CommandLines == { << >>, << "a.onyx" >>, << "x.onyx", "a.onyx" >> }

\* the options under which the model lets a path be missing
MissingFileOptions ==
    [ action : { "compile" }, runtime : { "onyx" }, no_core : BOOLEAN, files : { << "a.onyx" >> } ]

Min(a, b) == IF a < b THEN a ELSE b
Max(a, b) == IF a > b THEN a ELSE b

\* ent->macro_attempts++, in the bounded representation
IncAttempts(m) == Min(m + 1, MaxAttempts)

----------------------------------------------------------------------------
(* Entities and the entity heap *)

Entity(state, type, file, origin) ==
    [ state |-> state, type |-> type, macro_attempts |-> 0, file |-> file, origin |-> origin ]

\* heap key (state, id): lower state first, then lower id
KeyLeq(s1, i1, s2, i2) == s1 < s2 \/ (s1 = s2 /\ i1 <= i2)

InHeap(h) == { i \in DOMAIN h : h[i] > 0 }

\* entity_heap_top
entity_heap_top(h, ents) ==
    CHOOSE i \in InHeap(h) :
        \A j \in InHeap(h) : KeyLeq(ents[i].state, i, ents[j].state, j)

\* entity_heap_remove_top
entity_heap_remove_top(h, ents) ==
    LET t == entity_heap_top(h, ents) IN [ h EXCEPT ![t] = @ - 1 ]

\* entity_heap_insert_existing
entity_heap_insert_existing(h, e) == [ h EXCEPT ![e] = @ + 1 ]

\* entity_heap_insert of a sequence of new entities: fresh ids in order
RECURSIVE InsertAll(_, _, _)
InsertAll(ents, h, new) ==
    IF new = << >> THEN [ ents |-> ents, heap |-> h ]
    ELSE LET id == Cardinality(DOMAIN ents)
         IN  InsertAll( [ i \in DOMAIN ents \cup {id} |-> IF i = id THEN Head(new) ELSE ents[i] ],
                        [ i \in DOMAIN h \cup {id} |-> IF i = id THEN 1 ELSE h[i] ],
                        Tail(new) )

----------------------------------------------------------------------------
(* Boot sequence: context_init *)

RECURSIVE LoadEntities(_, _, _)
LoadEntities(paths, state, origin) ==
    IF paths = << >> THEN << >>
    ELSE << Entity(state, "Load_File", Head(paths), origin) >>
         \o LoadEntities(Tail(paths), state, origin)

RECURSIVE GlobalEntities(_)
GlobalEntities(names) ==
    IF names = << >> THEN << >>
    ELSE << Entity(Entity_State_Introduce_Symbols, "Global", Head(names), "boot") >>
         \o GlobalEntities(Tail(names))

\* the boot sequence with the command-line files inserted after the core module
BootEntities_FilesLast(opts) ==
    LoadEntities(CorePaths, Entity_State_Parse_Builtin, "boot")
    \o (IF opts.runtime # "custom" THEN LoadEntities(RuntimeInfoPaths, Entity_State_Parse, "boot") ELSE << >>)
    \o GlobalEntities(BuiltinGlobals)
    \o (IF ~opts.no_core THEN LoadEntities(<< CoreModulePath >>, Entity_State_Parse, "boot") ELSE << >>)
    \o LoadEntities(opts.files, Entity_State_Parse, "boot")

\* the entities context_init inserts, in insertion order
BootEntities(opts) ==
    LoadEntities(CorePaths, Entity_State_Parse_Builtin, "boot")
    \o (IF opts.runtime # "custom" THEN LoadEntities(RuntimeInfoPaths, Entity_State_Parse, "boot") ELSE << >>)
    \o GlobalEntities(BuiltinGlobals)
    \o LoadEntities(opts.files, Entity_State_Parse, "boot")
    \o (IF ~opts.no_core THEN LoadEntities(<< CoreModulePath >>, Entity_State_Parse, "boot") ELSE << >>)

context_init(opts) ==
    InsertAll([ i \in {} |-> 0 ], [ i \in {} |-> 0 ], BootEntities(opts))

\* ent == runtime_info_types_entity || ... || ent == runtime_info_stack_trace_entity
IsRuntimeInfoEntity(ents, e) ==
    ents[e].origin = "boot" /\ ents[e].file \in Range(RuntimeInfoPaths)

----------------------------------------------------------------------------
(* The part of the context one dispatch reads and writes *)

Context ==
    [ entities |-> entities, heap |-> heap, loaded_files |-> loaded_files,
      errors |-> errors, parsed |-> parsed,
      builtins_initialized |-> builtins_initialized,
      special_global_entities_remaining |-> special_global_entities_remaining,
      ret |-> TRUE, inserted |-> 0, lazy_init |-> FALSE, special_init |-> FALSE,
      emitted |-> FALSE, macro_yield |-> FALSE ]

NumCreated(ents) == Cardinality({ i \in DOMAIN ents : ents[i].origin # "boot" })

onyx_report_error(c, msg, file) ==
    [ c EXCEPT !.errors = Append(@, [ msg |-> msg, file |-> file ]) ]

onyx_has_errors(errs) == Len(errs) > 0

\* add_entities_for_node / entity_heap_insert for the nodes a collaborator produced
AddEntities(c, new) ==
    LET r == InsertAll(c.entities, c.heap, new)
    IN  [ c EXCEPT !.entities = r.ents, !.heap = r.heap, !.inserted = @ + Len(new) ]

\* include->kind == Ast_Kind_Load_All, with include->recursive or without
LoadAllTypes == { "Load_All", "Load_All_Recursive" }

\* the entities a parsed file can declare: loads, declarations, #error directives
ParserTemplates ==
    { Entity(Entity_State_Parse, "Load_File", p, "parser") : p \in UserPaths }
    \cup { Entity(Entity_State_Introduce_Symbols, "Decl", "", "parser"),
           Entity(Entity_State_Error, "Error", "", "parser") }

\* the source file that holds the #load_all directives
LoadAllFile == "a.onyx"

\* the entities the parser can declare for the file filename
ParserTemplatesOf(filename) ==
    ParserTemplates
    \cup (IF filename = LoadAllFile
          THEN { Entity(Entity_State_Parse, t, LoadAllFolder, "parser") : t \in LoadAllTypes }
          ELSE {})

\* the entities a resolver or checker can add when it advances an entity
CollaboratorTemplates ==
    { Entity(Entity_State_Introduce_Symbols, "Decl", "", "collaborator") }

NewEntities(c, templates) ==
    { << >> } \cup (IF NumCreated(c.entities) < MaxCreated
                    THEN { << t >> : t \in templates } ELSE {})

\* parse_source_file: tokenizes and parses the file registered last; the parser
\* pushes the entities of the file into the heap and may report parse errors
parse_source_file(c, filename) ==
    LET c1 == [ c EXCEPT !.parsed[filename] = @ + 1 ]
    IN  { AddEntities(c1, new) : new \in NewEntities(c1, ParserTemplatesOf(filename)) }
        \cup { onyx_report_error(c1, "Parse error", filename) }

\* process_source_file reporting a file that cannot be opened whatever
\* cycle_detected is
process_source_file_AlwaysReports(c, filename, from_cmdline) ==
    IF filename \notin fs
    THEN { [ onyx_report_error(c, "Failed to open file", filename) EXCEPT !.ret = FALSE ] }
    ELSE { [ c2 EXCEPT !.ret = TRUE ] :
             c2 \in parse_source_file([ c EXCEPT !.loaded_files = Append(@, filename) ], filename) }

\* process_source_file never reporting a file that cannot be opened
process_source_file_NeverReports(c, filename, from_cmdline) ==
    IF filename \notin fs
    THEN { [ c EXCEPT !.ret = FALSE ] }
    ELSE { [ c2 EXCEPT !.ret = TRUE ] :
             c2 \in parse_source_file([ c EXCEPT !.loaded_files = Append(@, filename) ], filename) }

\* process_source_file from bh_file_open on: the file is not registered yet
process_source_file_unchecked(c, filename, from_cmdline) ==
    IF filename \notin fs
    THEN { [ (IF cycle_detected
              THEN onyx_report_error(c, "Failed to open file", filename)
              ELSE c) EXCEPT !.ret = FALSE ] }
    ELSE { [ c2 EXCEPT !.ret = TRUE ] :
             c2 \in parse_source_file([ c EXCEPT !.loaded_files = Append(@, filename) ], filename) }

\* process_source_file without the loop over loaded_files
process_source_file_NoDuplicateCheck(c, filename, from_cmdline) ==
    process_source_file_unchecked(c, filename, from_cmdline)

\* process_source_file: returns 1 for a registered file, 0 for a file that cannot
\* be opened, 1 after registering and parsing a new file
process_source_file(c, filename, from_cmdline) ==
    IF filename \in Range(c.loaded_files)
    THEN { [ c EXCEPT !.ret = TRUE ] }
    ELSE process_source_file_unchecked(c, filename, from_cmdline)

\* bh_arr_pop: the last element and the rest
Last(s) == s[Len(s)]
Front(s) == SubSeq(s, 1, Len(s) - 1)

\* process_load_entity, include->kind == Ast_Kind_Load_All: the loop over
\* folders_to_process
RECURSIVE LoadAll(_, _, _)
LoadAll(c, folders_to_process, recursive) ==
    IF folders_to_process = << >>
    THEN [ c EXCEPT !.ret = TRUE ]
    ELSE LET folder == Last(folders_to_process)
         IN  IF folder \notin fs
             THEN [ onyx_report_error(c, "Could not find or open folder", folder)
                      EXCEPT !.ret = FALSE ]
             ELSE LoadAll(AddEntities(c, LoadEntities(DirFiles(folder), Entity_State_Parse, "load_all")),
                          Front(folders_to_process)
                            \o (IF recursive THEN DirFolders(folder) ELSE << >>),
                          recursive)

\* process_load_entity: include->kind is Ast_Kind_Load_File or Ast_Kind_Load_All
process_load_entity(c, e) ==
    IF c.entities[e].type \in LoadAllTypes
    THEN { LoadAll(c, << c.entities[e].file >>, c.entities[e].type = "Load_All_Recursive") }
    ELSE process_source_file(c, c.entities[e].file, c.entities[e].origin = "boot")

----------------------------------------------------------------------------
(* Collaborators: symres_entity, check_entity, emit_entity *)

SetState(c, e, st) == [ c EXCEPT !.entities[e].state = st ]

\* ent->macro_attempts++
Yield(c, e) == [ c EXCEPT !.entities[e].macro_attempts = IncAttempts(@), !.macro_yield = TRUE ]

\* One call of a collaborator on entity e, whose success state is next.
\* It advances the entity (possibly adding entities), or fails it with an
\* error, or leaves the state unchanged: a yield, which counts a macro attempt,
\* or, once cycle_detected is set, a report of the unmet dependency.  The built-in globals depend on nothing
\* and advance.
CollaboratorOutcomes(c, e, next) ==
    LET advance == { AddEntities(SetState(c, e, next), new) :
                        new \in NewEntities(c, CollaboratorTemplates) }
        fail == { onyx_report_error(SetState(c, e, Entity_State_Failed), "Collaborator error", "") }
        yield == IF cycle_detected
                 THEN { onyx_report_error(Yield(c, e), "Unmet dependency", "") }
                 ELSE { Yield(c, e) }
    IN  IF c.entities[e].type = "Global"
        THEN { SetState(c, e, next) }
        ELSE advance \cup fail \cup yield

symres_entity(c, e) ==
    CollaboratorOutcomes(c, e,
        IF c.entities[e].state = Entity_State_Introduce_Symbols
        THEN Entity_State_Resolve_Symbols ELSE Entity_State_Check_Types)

check_entity(c, e) == CollaboratorOutcomes(c, e, Entity_State_Code_Gen)

\* dump_cycles drains the entities below Code_Gen only: the report of an unmet
\* dependency is the contract of the resolver and the checker; the emitter may
\* also yield without a report while cycle_detected is set
emit_entity(c, e) ==
    { [ c2 EXCEPT !.emitted = TRUE ] :
        c2 \in CollaboratorOutcomes(c, e, Entity_State_Finalized)
                \cup (IF c.entities[e].type # "Global" THEN { Yield(c, e) } ELSE {}) }

----------------------------------------------------------------------------
(* Phase dispatcher: process_entity *)

\* case Entity_State_Error
ProcessError(c, e) ==
    { onyx_report_error(c,
        IF c.entities[e].type # "Error" THEN "Error entity unexpected" ELSE "Static error occured",
        "") }

\* the Parse_Builtin case treating a failed load as the Parse case does
ProcessParseBuiltin_Yields(c, e) ==
    { IF c2.ret THEN SetState(c2, e, Entity_State_Finalized) ELSE Yield(c2, e) :
        c2 \in process_load_entity(c, e) }

\* case Entity_State_Parse_Builtin
ProcessParseBuiltin(c, e) ==
    { SetState(c2, e, Entity_State_Finalized) : c2 \in process_load_entity(c, e) }

\* the lazy initialization without context.builtins_initialized = 1
LazyInit_NoFlag(c) ==
    IF ~c.builtins_initialized
    THEN [ c EXCEPT !.lazy_init = TRUE ]
    ELSE c

\* if (!context.builtins_initialized) { ... }
LazyInit(c) ==
    IF ~c.builtins_initialized
    THEN [ c EXCEPT !.builtins_initialized = TRUE, !.lazy_init = TRUE ]
    ELSE c

\* the special globals initialized without the decrement that ends it
SpecialGlobalsInit_NoSentinel(c) ==
    IF c.special_global_entities_remaining = 0
    THEN [ c EXCEPT !.special_init = TRUE ]
    ELSE c

\* if (special_global_entities_remaining == 0) { ...--; initalize_special_globals(); }
SpecialGlobalsInit(c) ==
    IF c.special_global_entities_remaining = 0
    THEN [ c EXCEPT !.special_global_entities_remaining = DecU32(@),
                    !.special_init = TRUE ]
    ELSE c

\* the Parse case leaving a loaded entity in an earlier state
ParseLoadResult_Regress(c2, e) ==
    IF c2.ret
    THEN SetState(c2, e, Entity_State_Parse_Builtin)
    ELSE Yield(c2, e)

\* the Parse case without macro_attempts++
ParseLoadResult_NoAttempt(c2, e) ==
    IF c2.ret
    THEN SetState(
            IF IsRuntimeInfoEntity(c2.entities, e)
            THEN [ c2 EXCEPT !.special_global_entities_remaining = DecU32(@) ]
            ELSE c2,
            e, Entity_State_Finalized)
    ELSE c2

\* if (process_load_entity(ent)) { ...; state = Finalized } else macro_attempts++
ParseLoadResult(c2, e) ==
    IF c2.ret
    THEN SetState(
            IF IsRuntimeInfoEntity(c2.entities, e)
            THEN [ c2 EXCEPT !.special_global_entities_remaining = DecU32(@) ]
            ELSE c2,
            e, Entity_State_Finalized)
    ELSE Yield(c2, e)

\* case Entity_State_Parse
ProcessParse(c, e) ==
    { ParseLoadResult(c2, e) : c2 \in process_load_entity(SpecialGlobalsInit(LazyInit(c)), e) }

\* the Code_Gen case without the test of the check action
ProcessCodeGen_AlwaysEmits(c, e) ==
    emit_entity(c, e)

\* the Code_Gen case sending a checked entity back to Check_Types
ProcessCodeGen_Regress(c, e) ==
    IF options.action = "check"
    THEN { SetState(c, e, Entity_State_Check_Types) }
    ELSE emit_entity(c, e)

\* case Entity_State_Code_Gen
ProcessCodeGen(c, e) ==
    IF options.action = "check"
    THEN { SetState(c, e, Entity_State_Finalized) }
    ELSE emit_entity(c, e)

\* process_entity: the contexts one dispatch of e can leave
process_entity(c, e) ==
    LET st == c.entities[e].state
    IN  CASE st = Entity_State_Error             -> ProcessError(c, e)
          [] st = Entity_State_Parse_Builtin     -> ProcessParseBuiltin(c, e)
          [] st = Entity_State_Introduce_Symbols -> symres_entity(c, e)
          [] st = Entity_State_Parse             -> ProcessParse(c, e)
          [] st = Entity_State_Resolve_Symbols   -> symres_entity(c, e)
          [] st = Entity_State_Check_Types       -> check_entity(c, e)
          [] st = Entity_State_Code_Gen          -> ProcessCodeGen(c, e)
          [] OTHER                               -> { c }

----------------------------------------------------------------------------
(* Cycle detector: the watermark step of onyx_compile *)

\* the watermark step calling dump_cycles when cycle_almost_detected is 2
Watermark_DumpAtTwo(ents, ent, changed, wm, hw, cad) ==
    LET m == ents[ent].macro_attempts
        none == [ wm |-> wm, hw |-> hw, cad |-> cad, lap |-> FALSE, dump |-> FALSE ]
    IN  IF ~changed
        THEN IF wm = NoEntity
             THEN [ none EXCEPT !.wm = ent, !.hw = Max(hw, m) ]
             ELSE IF wm = ent
             THEN IF m > hw
                  THEN IF cad = 2
                       THEN [ none EXCEPT !.lap = TRUE, !.dump = TRUE ]
                       ELSE [ none EXCEPT !.lap = TRUE, !.cad = cad + 1 ]
                  ELSE none
             ELSE IF ents[wm].macro_attempts < m
             THEN [ none EXCEPT !.wm = ent, !.hw = Max(hw, m) ]
             ELSE none
        ELSE [ none EXCEPT !.wm = NoEntity, !.cad = 0 ]

\* the watermark step without its else branch
Watermark_NoReset(ents, ent, changed, wm, hw, cad) ==
    LET m == ents[ent].macro_attempts
        none == [ wm |-> wm, hw |-> hw, cad |-> cad, lap |-> FALSE, dump |-> FALSE ]
    IN  IF ~changed
        THEN IF wm = NoEntity
             THEN [ none EXCEPT !.wm = ent, !.hw = Max(hw, m) ]
             ELSE IF wm = ent
             THEN IF m > hw
                  THEN IF cad = 3
                       THEN [ none EXCEPT !.lap = TRUE, !.dump = TRUE ]
                       ELSE [ none EXCEPT !.lap = TRUE, !.cad = cad + 1 ]
                  ELSE none
             ELSE IF ents[wm].macro_attempts < m
             THEN [ none EXCEPT !.wm = ent, !.hw = Max(hw, m) ]
             ELSE none
        ELSE none

\* the watermark step raising highest_watermark on every stall lap
Watermark_RaisesOnLap(ents, ent, changed, wm, hw, cad) ==
    LET m == ents[ent].macro_attempts
        none == [ wm |-> wm, hw |-> hw, cad |-> cad, lap |-> FALSE, dump |-> FALSE ]
    IN  IF ~changed
        THEN IF wm = NoEntity
             THEN [ none EXCEPT !.wm = ent, !.hw = Max(hw, m) ]
             ELSE IF wm = ent
             THEN IF m > hw
                  THEN IF cad = 3
                       THEN [ none EXCEPT !.lap = TRUE, !.dump = TRUE, !.hw = m ]
                       ELSE [ none EXCEPT !.lap = TRUE, !.cad = cad + 1, !.hw = m ]
                  ELSE none
             ELSE IF ents[wm].macro_attempts < m
             THEN [ none EXCEPT !.wm = ent, !.hw = Max(hw, m) ]
             ELSE none
        ELSE [ none EXCEPT !.wm = NoEntity, !.cad = 0 ]

\* The step evaluated after process_entity returned `changed` for ent, whose
\* macro_attempts is now m.  lap: the watermarked entity came back unchanged
\* above the watermark; dump: that lap calls dump_cycles.
Watermark(ents, ent, changed, wm, hw, cad) ==
    LET m == ents[ent].macro_attempts
        none == [ wm |-> wm, hw |-> hw, cad |-> cad, lap |-> FALSE, dump |-> FALSE ]
    IN  IF ~changed
        THEN IF wm = NoEntity
             THEN [ none EXCEPT !.wm = ent, !.hw = Max(hw, m) ]
             ELSE IF wm = ent
             THEN IF m > hw
                  THEN IF cad = 3
                       THEN [ none EXCEPT !.lap = TRUE, !.dump = TRUE ]
                       ELSE [ none EXCEPT !.lap = TRUE, !.cad = cad + 1 ]
                  ELSE none
             ELSE IF ents[wm].macro_attempts < m
             THEN [ none EXCEPT !.wm = ent, !.hw = Max(hw, m) ]
             ELSE none
        ELSE [ none EXCEPT !.wm = NoEntity, !.cad = 0 ]

\* A macro yield of an entity whose macro_attempts is already MaxAttempts is
\* taken only where the watermark step does not depend on the exact count:
\* by the watermarked entity, with the watermark below MaxAttempts.
Representable(c, ent) ==
    (c.macro_yield /\ entities[ent].macro_attempts = MaxAttempts)
        => (watermarked_node = ent /\ highest_watermark < MaxAttempts)

\* if (ent->state != Finalized && ent->state != Failed) entity_heap_insert_existing
Reinsert(h, ents, ent) ==
    IF ents[ent].state # Entity_State_Finalized /\ ents[ent].state # Entity_State_Failed
    THEN entity_heap_insert_existing(h, ent)
    ELSE h

Dispatched(kind, ent, c, changed, lap, dump) ==
    [ kind |-> kind, ent |-> ent,
      state |-> entities[ent].state, macro |-> entities[ent].macro_attempts,
      type |-> entities[ent].type, file |-> entities[ent].file,
      known |-> entities[ent].file \in Range(loaded_files),
      changed |-> changed, macro_yield |-> c.macro_yield, inserted |-> c.inserted,
      reported |-> SubSeq(c.errors, Len(errors) + 1, Len(c.errors)),
      registered |-> Len(c.loaded_files) - Len(loaded_files),
      ret |-> c.ret, lazy_init |-> c.lazy_init, special_init |-> c.special_init,
      emitted |-> c.emitted, cyc |-> cycle_detected, lap |-> lap, dump |-> dump,
      copies |-> heap[ent] - 1 ]

NoDispatch == [ kind |-> "none" ]

Key(d) == [ kind |-> d.kind, state |-> d.state, id |-> d.ent, inserted |-> d.inserted ]

\* the context fields process_entity wrote
Commit(c) ==
    /\ entities' = c.entities
    /\ loaded_files' = c.loaded_files
    /\ errors' = c.errors
    /\ parsed' = c.parsed
    /\ builtins_initialized' = c.builtins_initialized
    /\ special_global_entities_remaining' = c.special_global_entities_remaining
    /\ lazy_inits' = IF c.lazy_init THEN Min(lazy_inits + 1, MaxInits) ELSE lazy_inits
    /\ special_inits' = IF c.special_init THEN Min(special_inits + 1, MaxInits) ELSE special_inits

\* cleanup_compilation
cleanup_compilation ==
    /\ live' = FALSE
    /\ cleanups' = cleanups + 1

\* the cleanup_compilation that follows the step: onyx_watch calls it before it
\* waits for a change, main calls it before it returns
CleanupAfterStep ==
    IF pc' # pc /\ pc' \in { "watch", "exit" }
    THEN cleanup_compilation
    ELSE UNCHANGED cleanup_vars

\* where control is once the compilation (and the flush, if any) is over:
\* onyx_watch waits for a change, main returns
AfterCompilation == IF options.action = "watch" THEN "watch" ELSE "exit"

\* the end of the loop body without the test of onyx_has_errors
EndOfIteration_IgnoresErrors(c, h, ent) ==
    /\ heap' = Reinsert(h, c.entities, ent)
    /\ result' = result
    /\ pc' = "compile"

\* onyx_compile from "if (onyx_has_errors())" to the end of the loop body,
\* for the entity ent dispatched in this iteration
EndOfIteration(c, h, ent) ==
    IF onyx_has_errors(c.errors)
    THEN /\ heap' = h
         /\ result' = ONYX_COMPILER_PROGRESS_ERROR
         /\ pc' = AfterCompilation
    ELSE /\ heap' = Reinsert(h, c.entities, ent)
         /\ result' = result
         /\ pc' = "compile"

----------------------------------------------------------------------------
(* The command line: compile_opts_parse *)

\* argv[1] values: the subcommands, an installed tool script, an unknown word
FirstArgs ==
    { "help", "version", "build", "check", "pkg", "run", "watch", "tool", "bogus" }

\* argv[2 ..] values
RestArgs ==
    { "-r", "-o", "onyx", "js", "custom", "nope", "--multi-threaded", "--wasm-mvp",
      "--no-core", "--", "a.onyx", "s.wasm" }

\* the words for which <ONYX_PATH>/tools/<word>.wasm exists
ToolScripts == { "tool" }

\* the arguments bh_str_ends_with(argv[i], ".wasm") accepts
WasmArgs == { "s.wasm" }

ArgVectors ==
    { << >> } \cup
    { << f >> \o r : f \in FirstArgs,
                     r \in UNION { [ 1 .. n -> RestArgs ] : n \in 0 .. MaxArgs } }

\* argv[argc], the null pointer that ends argv
NullArg == "(null)"

Argc(av) == Len(av) + 1

Arg(av, i) == IF i < Argc(av) THEN av[i] ELSE NullArg

\* &argv[i] with argc - i arguments behind it
ArgsFrom(av, i) == SubSeq(av, i, Len(av))

\* CompileOptions options = { ... }
DefaultOptions ==
    [ action |-> "print_help", runtime |-> "onyx",
      use_multi_threading |-> FALSE, use_post_mvp_features |-> TRUE,
      no_core |-> FALSE, files |-> << >>, target_file |-> "out.wasm",
      passthrough |-> << >> ]

\* what one step of the parser leaves: options, index, position, output
ParseState(o, i, at, out) == [ opts |-> o, i |-> i, pc |-> at, out |-> out ]

\* if (argc == 1) return options; ... the subcommand in argv[1]
ParseSubcommandResult(av, o) ==
    IF Argc(av) = 1 THEN ParseState(o, 1, "done", << >>)
    ELSE IF av[1] = "help"
         THEN ParseState([ o EXCEPT !.action = "print_help" ], 1, "skip", << >>)
    ELSE IF av[1] = "version"
         THEN ParseState([ o EXCEPT !.action = "print_version" ], 1, "skip", << >>)
    ELSE IF av[1] \in { "compile", "build" }
         THEN ParseState([ o EXCEPT !.action = "compile" ], 2, "loop", << >>)
    ELSE IF av[1] = "check"
         THEN ParseState([ o EXCEPT !.action = "check" ], 2, "loop", << >>)
    ELSE IF av[1] \in { "pkg", "package" }
         THEN ParseState([ o EXCEPT !.action = "run",
                                    !.passthrough = ArgsFrom(av, 2),
                                    !.files = Append(@, "tools/onyx-pkg.onyx") ],
                         Argc(av), "skip", << >>)
    ELSE IF av[1] = "run"
         THEN ParseState([ o EXCEPT !.action = "run" ], 2, "loop", << >>)
    ELSE IF av[1] = "watch"
         THEN ParseState([ o EXCEPT !.action = "watch" ], 2, "loop", << >>)
    ELSE IF av[1] \in ToolScripts
         THEN ParseState([ o EXCEPT !.action = "run_wasm",
                                    !.target_file = av[1],
                                    !.passthrough = ArgsFrom(av, 2) ],
                         1, "skip", << >>)
    ELSE ParseState(o, 1, "exited", << "Unknown subcommand" >>)

\* the -r / --runtime branch: the outcomes of comparing argv[i + 1]
RuntimeArgResult(o, i, name, out) ==
    IF name = NullArg
    THEN \* strcmp on the null pointer: the build may crash or find no match
         { ParseState(o, i + 1, "crashed", out),
           ParseState([ o EXCEPT !.runtime = "onyx" ], i + 2, "loop",
                      Append(out, "WARNING: not a valid runtime")) }
    ELSE IF name \in { "onyx", "wasi", "js", "custom" }
    THEN { ParseState([ o EXCEPT !.runtime = name ], i + 2, "loop", out) }
    ELSE { ParseState([ o EXCEPT !.runtime = "onyx" ], i + 2, "loop",
                      Append(out, "WARNING: not a valid runtime")) }

\* the flags whose value is argv[++i] and is kept in a field the model leaves out
OtherValueFlags == { "--error-format", "--feature", "-I", "--doc", "--syminfo", "--lspinfo" }

\* the flags that set a field the model leaves out
OtherFlags ==
    { "--verbose", "-V", "-VV", "-VVV", "--print-function-mappings",
      "--print-static-if-results", "--no-colors", "--no-file-contents",
      "--generate-foreign-info", "--generate-method-info", "--no-type-info",
      "--no-stale-code", "--show-all-errors", "--tag", "--debug", "--debug-info",
      "--stack-trace", "--perf", "--fun", "-F" }

\* the "--" branch going on with the next argument
DashDashResult_KeepsParsing(av, o, i, out) ==
    { ParseState([ o EXCEPT !.passthrough = ArgsFrom(av, i + 1) ], i + 1, "loop", out) }

\* the "--" branch: the rest of argv is passed through, break
DashDashResult(av, o, i, out) ==
    { ParseState([ o EXCEPT !.passthrough = ArgsFrom(av, i + 1) ], i, "skip", out) }

\* one iteration of fori(i, arg_parse_start, argc), i < argc
ParseArgumentResult(av, o, i, out) ==
    LET a == av[i] IN
    IF a \in { "-o", "--output" }
    THEN { ParseState([ o EXCEPT !.target_file = Arg(av, i + 1) ], i + 2, "loop", out) }
    ELSE IF a \in OtherValueFlags
    THEN { ParseState(o, i + 2, "loop", out) }
    ELSE IF a \in OtherFlags
    THEN { ParseState(o, i + 1, "loop", out) }
    ELSE IF a = "--wasm-mvp"
    THEN { ParseState([ o EXCEPT !.use_post_mvp_features = FALSE ], i + 1, "loop", out) }
    ELSE IF a = "--multi-threaded"
    THEN { ParseState([ o EXCEPT !.use_multi_threading = TRUE ], i + 1, "loop", out) }
    ELSE IF a = "--no-core"
    THEN { ParseState([ o EXCEPT !.no_core = TRUE ], i + 1, "loop", out) }
    ELSE IF a \in { "-r", "--runtime" }
    THEN RuntimeArgResult(o, i, Arg(av, i + 1), out)
    ELSE IF a = "--"
    THEN DashDashResult(av, o, i, out)
    ELSE IF a \in WasmArgs /\ o.action = "run"
    THEN IF Len(o.files) > 0
         THEN { ParseState(o, i, "exited", Append(out, "Expected only one '.wasm'")) }
         ELSE { ParseState([ o EXCEPT !.action = "run_wasm", !.target_file = a,
                                      !.passthrough = ArgsFrom(av, i + 1) ],
                           i, "skip", out) }
    ELSE { ParseState([ o EXCEPT !.files = Append(@, a) ], i + 1, "loop", out) }

\* skip_parsing_arguments: always enable multi-threading for the Onyx runtime
SkipParsingArgumentsResult(o) ==
    IF o.runtime = "onyx" THEN [ o EXCEPT !.use_multi_threading = TRUE ] ELSE o

\* the loop at onyx.c:253-398 from index i to its end
RECURSIVE ParseArguments(_, _, _, _)
ParseArguments(av, o, i, out) ==
    IF i >= Argc(av) THEN { ParseState(o, i, "skip", out) }
    ELSE UNION { IF r.pc = "loop" THEN ParseArguments(av, r.opts, r.i, r.out) ELSE { r } :
                    r \in ParseArgumentResult(av, o, i, out) }

\* compile_opts_parse: the ways the call can end for the argument vector av
compile_opts_parse(av) ==
    LET s == ParseSubcommandResult(av, DefaultOptions)
        ends == IF s.pc = "loop" THEN ParseArguments(av, s.opts, s.i, s.out) ELSE { s }
    IN  { IF r.pc = "skip"
          THEN ParseState(SkipParsingArgumentsResult(r.opts), r.i, "done", r.out)
          ELSE r : r \in ends }

\* a command line that asks for the options opts
CommandLineOf(opts) ==
    << opts.action >>
    \o (IF opts.runtime # "onyx" THEN << "-r", opts.runtime >> ELSE << >>)
    \o (IF opts.no_core THEN << "--no-core" >> ELSE << >>)
    \o opts.files

----------------------------------------------------------------------------
(* Finalization: onyx_flush_module *)

OutputFiles == { "target", "target.data", "target.js" }

NoCloses == [ f \in OutputFiles |-> 0 ]

\* the companion is written whenever multi-threading is enabled
WritesDataFile_WithPostMvp(o) == o.use_multi_threading

\* context.options->use_multi_threading && !context.options->use_post_mvp_features
WritesDataFile(o) == o.use_multi_threading /\ ~o.use_post_mvp_features

\* onyx_wasm_module_write_to_file: the file and whether the module written
\* holds the data segment
Write(file, data) == [ file |-> file, data |-> data ]

FlushState(ret, created, wr, cl) ==
    [ ret |-> ret, created |-> created, written |-> wr, closed |-> cl ]

Close(cl, file) == [ cl EXCEPT ![file] = @ + 1 ]

\* onyx_flush_module for the options o, a module with or without js partials,
\* and the set of files bh_file_create cannot create
onyx_flush_module(o, js_partials, uncreatable) ==
    IF "target" \in uncreatable
    THEN FlushState(ONYX_COMPILER_PROGRESS_FAILED_OUTPUT, {}, << >>, NoCloses)
    ELSE IF WritesDataFile(o) /\ "target.data" \in uncreatable
    THEN FlushState(ONYX_COMPILER_PROGRESS_FAILED_OUTPUT, { "target" }, << >>, NoCloses)
    ELSE
    LET modules == IF WritesDataFile(o)
                   THEN [ created |-> { "target", "target.data" },
                          written |-> << Write("target.data", TRUE), Write("target", FALSE) >>,
                          closed  |-> Close(NoCloses, "target.data") ]
                   ELSE [ created |-> { "target" },
                          written |-> << Write("target", TRUE) >>,
                          closed  |-> NoCloses ]
    IN  IF js_partials /\ "target.js" \in uncreatable
        THEN FlushState(ONYX_COMPILER_PROGRESS_FAILED_OUTPUT, modules.created,
                        modules.written, modules.closed)
        ELSE IF js_partials
        THEN FlushState(ONYX_COMPILER_PROGRESS_SUCCESS,
                        modules.created \cup { "target.js" },
                        Append(modules.written, Write("target.js", FALSE)),
                        Close(Close(modules.closed, "target"), "target"))
        ELSE FlushState(ONYX_COMPILER_PROGRESS_SUCCESS, modules.created,
                        modules.written, Close(modules.closed, "target"))

----------------------------------------------------------------------------
(* Actions *)

Actions == { "check", "compile" }
Runtimes == { "onyx", "custom" }

\* the flags the model adds to a command line, and the options it adds them to
FlagLines ==
    { << >>, << "--wasm-mvp" >>, << "--multi-threaded" >>,
      << "--multi-threaded", "--wasm-mvp" >> }

FlagOptions ==
    [ action : { "compile" }, runtime : Runtimes, no_core : { TRUE }, files : { << >> } ]

\* main's compile_opts: compile_opts_parse returned the options for the
\* command line of options followed by flags
Parsed(flags) ==
    /\ argv = CommandLineOf(options) \o flags
    /\ parse_pc = "done"
    /\ \E r \in compile_opts_parse(argv) :
          /\ r.pc = "done"
          /\ compile_opts = r.opts
          /\ arg_i = r.i
          /\ parse_out = r.out
    /\ compile_opts.action = options.action
    /\ compile_opts.runtime = options.runtime
    /\ compile_opts.no_core = options.no_core
    /\ compile_opts.files = options.files

\* the state when the first do_compilation has run context_init
Started ==
    /\ entities = context_init(options).ents
    /\ heap = context_init(options).heap
    /\ loaded_files = << >>
    /\ errors = << >>
    /\ cycle_detected = FALSE
    /\ cycle_almost_detected = 0
    /\ watermarked_node = NoEntity
    /\ highest_watermark = 0
    /\ builtins_initialized = FALSE
    /\ special_global_entities_remaining = 5
    /\ pc = "compile"
    /\ cur_ent = NoEntity
    /\ result = ONYX_COMPILER_PROGRESS_ERROR
    /\ output = {}
    /\ parsed = [ p \in AllPaths |-> 0 ]
    /\ stalled = {}
    /\ stall_laps = 0
    /\ last = NoDispatch
    /\ prev = NoDispatch
    /\ flush_result = NotCalled
    /\ compilations = 1
    /\ lazy_inits = 0
    /\ special_inits = 0
    /\ written = << >>
    /\ closed = NoCloses
    /\ live = TRUE
    /\ cleanups = 0

\* main was called with the check or the compile action
Init ==
    /\ options \in [ action : Actions, runtime : Runtimes, no_core : BOOLEAN,
                     files : CommandLines ]
    /\ \E missing \in MissingSets :
          /\ fs = FileSystem \ missing
          /\ missing # {} => options \in MissingFileOptions
    /\ \E flags \in FlagLines :
          /\ flags # << >> => (options \in FlagOptions /\ fs = FileSystem)
          /\ Parsed(flags)
    /\ Started

\* one iteration of the main loop of onyx_compile, up to the call of
\* dump_cycles if the iteration makes it
MainLoopIteration ==
    /\ pc = "compile"
    /\ UNCHANGED flush_vars
    /\ UNCHANGED parse_vars
    /\ InHeap(heap) # {}
    /\ \E ent \in { entity_heap_top(heap, entities) } :
       \E c0 \in { [ Context EXCEPT !.heap = entity_heap_remove_top(heap, entities) ] } :
           \E c \in process_entity(c0, ent) :
             LET changed == c.entities[ent].state # entities[ent].state
                 w == Watermark(c.entities, ent, changed, watermarked_node,
                                highest_watermark, cycle_almost_detected)
                 h == IF w.lap THEN entity_heap_insert_existing(c.heap, ent) ELSE c.heap
             IN  /\ Representable(c, ent)
                 /\ Commit(c)
                 /\ watermarked_node' = w.wm
                 /\ highest_watermark' = w.hw
                 /\ cycle_almost_detected' = w.cad
                 /\ stalled' = IF changed THEN {} ELSE stalled \cup { ent }
                 /\ stall_laps' = IF changed THEN 0
                                  ELSE IF w.lap THEN Min(stall_laps + 1, MaxLaps)
                                  ELSE stall_laps
                 /\ last' = Dispatched("main", ent, c, changed, w.lap, w.dump)
                 /\ prev' = IF last.kind = "none" THEN NoDispatch ELSE Key(last)
                 /\ IF w.dump
                    THEN /\ cycle_detected' = TRUE
                         /\ cur_ent' = ent
                         /\ heap' = h
                         /\ pc' = "dump"
                         /\ result' = result
                    ELSE /\ cycle_detected' = cycle_detected
                         /\ cur_ent' = cur_ent
                         /\ EndOfIteration(c, h, ent)
    /\ UNCHANGED << options, fs, output, flush_result, compilations >>
    /\ CleanupAfterStep

\* the loop of dump_cycles without the test of the heap length
DumpCyclesStep_NoLengthCheck ==
    /\ pc = "dump"
    /\ UNCHANGED flush_vars
    /\ UNCHANGED parse_vars
    /\ \E ent \in { entity_heap_top(heap, entities) } :
       \E c0 \in { [ Context EXCEPT !.heap = entity_heap_remove_top(heap, entities) ] } :
           IF entities[ent].state < Entity_State_Code_Gen
           THEN \E c \in process_entity(c0, ent) :
                  LET changed == c.entities[ent].state # entities[ent].state
                  IN  /\ Commit(c)
                      /\ last' = Dispatched("drain", ent, c, changed, FALSE, FALSE)
                      /\ prev' = Key(last)
                      /\ heap' = c.heap
                      /\ pc' = "dump"
                      /\ UNCHANGED << result, cur_ent >>
           ELSE /\ EndOfIteration(c0, c0.heap, cur_ent)
                /\ cur_ent' = NoEntity
                /\ last' = [ last EXCEPT !.kind = "break", !.dump = FALSE ]
                /\ UNCHANGED << entities, loaded_files, errors, parsed, builtins_initialized,
                                special_global_entities_remaining, prev, lazy_inits,
                                special_inits >>
    /\ UNCHANGED << options, fs, output, cycle_detected, cycle_almost_detected,
                    watermarked_node, highest_watermark, stalled, stall_laps,
                    flush_result, compilations >>
    /\ CleanupAfterStep

\* one iteration of the loop of dump_cycles; the iteration that leaves the
\* loop returns to onyx_compile, which finishes its own iteration
DumpCyclesStep ==
    /\ pc = "dump"
    /\ UNCHANGED flush_vars
    /\ UNCHANGED parse_vars
    /\ \E ent \in { entity_heap_top(heap, entities) } :
       \E c0 \in { [ Context EXCEPT !.heap = entity_heap_remove_top(heap, entities) ] } :
           IF entities[ent].state < Entity_State_Code_Gen
           THEN \E c \in process_entity(c0, ent) :
                  LET changed == c.entities[ent].state # entities[ent].state
                  IN  /\ Commit(c)
                      /\ last' = Dispatched("drain", ent, c, changed, FALSE, FALSE)
                      /\ prev' = Key(last)
                      /\ IF InHeap(c.heap) = {}
                         THEN /\ EndOfIteration(c, c.heap, cur_ent)
                              /\ cur_ent' = NoEntity
                         ELSE /\ heap' = c.heap
                              /\ pc' = "dump"
                              /\ UNCHANGED << result, cur_ent >>
           ELSE /\ EndOfIteration(c0, c0.heap, cur_ent)
                /\ cur_ent' = NoEntity
                /\ last' = [ last EXCEPT !.kind = "break", !.dump = FALSE ]
                /\ UNCHANGED << entities, loaded_files, errors, parsed, builtins_initialized,
                                special_global_entities_remaining, prev, lazy_inits,
                                special_inits >>
    /\ UNCHANGED << options, fs, output, cycle_detected, cycle_almost_detected,
                    watermarked_node, highest_watermark, stalled, stall_laps,
                    flush_result, compilations >>
    /\ CleanupAfterStep

\* the main loop ends on an empty heap: onyx_compile returns success; main
\* keeps it as compiler_progress and goes on to onyx_flush_module when the
\* action is compile; onyx_watch only tests it and goes on to onyx_flush_module
CompileSuccess ==
    /\ pc = "compile"
    /\ UNCHANGED flush_vars
    /\ UNCHANGED parse_vars
    /\ InHeap(heap) = {}
    /\ result' = IF options.action = "watch" THEN result ELSE ONYX_COMPILER_PROGRESS_SUCCESS
    /\ pc' = IF options.action \in { "compile", "watch" } THEN "flush" ELSE "exit"
    /\ UNCHANGED << options, fs, entities, heap, loaded_files, errors, cycle_detected,
                    cycle_almost_detected, watermarked_node, highest_watermark,
                    builtins_initialized, special_global_entities_remaining,
                    cur_ent, output, parsed, stalled, stall_laps, last, prev,
                    flush_result, compilations, lazy_inits, special_inits >>
    /\ CleanupAfterStep

\* onyx_flush_module: creates the target file, or fails to; main and onyx_watch
\* drop the value it returns
FlushModule ==
    /\ pc = "flush"
    /\ UNCHANGED parse_vars
    /\ \E js_partials \in BOOLEAN, uncreatable \in { {} } \cup { { f } : f \in OutputFiles } :
          LET r == onyx_flush_module(compile_opts, js_partials, uncreatable)
          IN  /\ output' = output \cup r.created
              /\ flush_result' = r.ret
              /\ written' = r.written
              /\ closed' = r.closed
    /\ pc' = AfterCompilation
    /\ UNCHANGED << options, fs, entities, heap, loaded_files, errors, cycle_detected,
                    cycle_almost_detected, watermarked_node, highest_watermark,
                    builtins_initialized, special_global_entities_remaining,
                    cur_ent, result, parsed, stalled, stall_laps, last, prev,
                    compilations, lazy_inits, special_inits >>
    /\ CleanupAfterStep

\* do_compilation called again by the loop of onyx_watch: context_init clears
\* the context and sets the counter of the special globals, the statics of
\* onyx_compile keep their values
Recompile ==
    /\ UNCHANGED parse_vars
    /\ compilations < MaxCompilations
    /\ compilations' = compilations + 1
    /\ entities' = context_init(options).ents
    /\ heap' = context_init(options).heap
    /\ loaded_files' = << >>
    /\ errors' = << >>
    /\ cycle_detected' = FALSE
    /\ cycle_almost_detected' = 0
    /\ builtins_initialized' = FALSE
    /\ special_global_entities_remaining' = 5
    /\ pc' = "compile"
    /\ cur_ent' = NoEntity
    /\ parsed' = [ p \in AllPaths |-> 0 ]
    /\ stalled' = {}
    /\ stall_laps' = 0
    /\ last' = NoDispatch
    /\ prev' = NoDispatch
    /\ flush_result' = NotCalled
    /\ lazy_inits' = 0
    /\ special_inits' = 0
    /\ written' = << >>
    /\ closed' = NoCloses
    /\ live' = TRUE
    /\ cleanups' = 0
    /\ UNCHANGED << options, fs, watermarked_node, highest_watermark, result, output >>

\* the loop of onyx_watch going on after the wait has failed
WatchRecompile_AfterStop ==
    /\ pc \in { "watch", "exit" }
    /\ Recompile

\* onyx_watch: bh_file_watch_wait reports a change, running_watch is still set
\* and the loop calls do_compilation again
WatchRecompile ==
    /\ pc = "watch"
    /\ Recompile

\* onyx_watch: bh_file_watch_wait fails (the stop signal) and the loop ends
WatchStop ==
    /\ pc = "watch"
    /\ UNCHANGED flush_vars
    /\ UNCHANGED parse_vars
    /\ pc' = "exit"
    /\ UNCHANGED << options, fs, entities, heap, loaded_files, errors, cycle_detected,
                    cycle_almost_detected, watermarked_node, highest_watermark,
                    builtins_initialized, special_global_entities_remaining,
                    cur_ent, result, output, parsed, stalled, stall_laps, last, prev,
                    flush_result, compilations, lazy_inits, special_inits >>
    /\ CleanupAfterStep

Next == MainLoopIteration \/ DumpCyclesStep \/ CompileSuccess \/ FlushModule

Spec == Init /\ [][Next]_vars

\* the main loop and main run to completion: no step of them waits on anything
FairSpec == Spec /\ WF_vars(Next)

\* a watch session: main was called with the watch action
WatchInit ==
    /\ options \in [ action : { "watch" }, runtime : Runtimes, no_core : BOOLEAN,
                     files : CommandLines ]
    /\ fs = FileSystem
    /\ Parsed(<< >>)
    /\ Started

WatchNext == Next \/ WatchRecompile \/ WatchStop

WatchSpec == WatchInit /\ [][WatchNext]_vars

\* main before compile_opts_parse: nothing of the compilation exists yet
ParseInit ==
    /\ argv \in ArgVectors
    /\ arg_i = 1
    /\ parse_pc = "start"
    /\ compile_opts = DefaultOptions
    /\ parse_out = << >>
    /\ options = [ action |-> "print_help", runtime |-> "onyx", no_core |-> FALSE,
                   files |-> << >> ]
    /\ fs = FileSystem
    /\ entities = [ i \in {} |-> 0 ]
    /\ heap = [ i \in {} |-> 0 ]
    /\ loaded_files = << >>
    /\ errors = << >>
    /\ cycle_detected = FALSE
    /\ cycle_almost_detected = 0
    /\ watermarked_node = NoEntity
    /\ highest_watermark = 0
    /\ builtins_initialized = FALSE
    /\ special_global_entities_remaining = 5
    /\ pc = "parse"
    /\ cur_ent = NoEntity
    /\ result = ONYX_COMPILER_PROGRESS_ERROR
    /\ output = {}
    /\ parsed = [ p \in AllPaths |-> 0 ]
    /\ stalled = {}
    /\ stall_laps = 0
    /\ last = NoDispatch
    /\ prev = NoDispatch
    /\ flush_result = NotCalled
    /\ compilations = 0
    /\ lazy_inits = 0
    /\ special_inits = 0
    /\ written = << >>
    /\ closed = NoCloses
    /\ live = FALSE
    /\ cleanups = 0

compile_vars ==
    << options, fs, entities, heap, loaded_files, errors, cycle_detected,
       cycle_almost_detected, watermarked_node, highest_watermark,
       builtins_initialized, special_global_entities_remaining, pc, cur_ent,
       result, output, parsed, stalled, stall_laps, last, prev, flush_result,
       compilations, lazy_inits, special_inits, written, closed, live, cleanups >>

\* a step of the parser ends at r
ParserMoves(r) ==
    /\ compile_opts' = r.opts
    /\ arg_i' = r.i
    /\ parse_pc' = r.pc
    /\ parse_out' = r.out
    /\ UNCHANGED << argv, compile_vars >>

\* onyx.c:189-250
ParseSubcommand ==
    /\ parse_pc = "start"
    /\ ParserMoves(ParseSubcommandResult(argv, compile_opts))

\* one iteration of the loop at onyx.c:253-398
ParseArgument ==
    /\ parse_pc = "loop"
    /\ arg_i < Argc(argv)
    /\ \E r \in ParseArgumentResult(argv, compile_opts, arg_i, parse_out) :
          ParserMoves(r)

\* the loop ends when i reaches argc
ParseArgumentsEnd ==
    /\ parse_pc = "loop"
    /\ arg_i >= Argc(argv)
    /\ ParserMoves(ParseState(compile_opts, arg_i, "skip", parse_out))

\* onyx.c:401-408
SkipParsingArguments ==
    /\ parse_pc = "skip"
    /\ ParserMoves(ParseState(SkipParsingArgumentsResult(compile_opts), arg_i, "done",
                              parse_out))

ParseNext ==
    ParseSubcommand \/ ParseArgument \/ ParseArgumentsEnd \/ SkipParsingArguments

ParseSpec == ParseInit /\ [][ParseNext]_vars

----------------------------------------------------------------------------
(* Properties *)

IsDispatch == last.kind \in { "main", "drain" }

FailedToOpen(file) == [ msg |-> "Failed to open file", file |-> file ]

C2_DumpByThirdLap ==
    (last.kind = "main" /\ last.lap /\ stall_laps = 3) => last.dump

\* C2, amended: the first three stall laps since the last state change raise
\* cycle_almost_detected to 1, 2, 3; dump_cycles is invoked on the fourth stall
\* lap and on every later one, and on no other dispatch.
C2_DumpOnFourthLap ==
    last.kind = "main" =>
        /\ last.dump <=> (last.lap /\ stall_laps >= 4)
        /\ (last.lap /\ stall_laps <= 3) => cycle_almost_detected = stall_laps
        /\ last.dump => cycle_almost_detected = 3

C2_Witness == last.kind = "main" /\ last.dump /\ stall_laps = 4

\* C3: once dump_cycles has been invoked, onyx_compile returns the error result
\* in that iteration: the main loop dispatches nothing more and no output is written.
C3_DumpEndsCompilation ==
    cycle_detected =>
        /\ pc \in { "dump", "exit" }
        /\ pc = "exit" => (result = ONYX_COMPILER_PROGRESS_ERROR /\ output = {})

\* C5: at every point where the driver pops the heap, no entity in the heap is
\* Finalized or Failed.
C5_NoFinishedEntityInHeap ==
    pc \in { "compile", "dump" } =>
        \A e \in InHeap(heap) :
            entities[e].state \notin { Entity_State_Finalized, Entity_State_Failed }

\* C4: every compilation terminates: the main loop of onyx_compile eventually
\* exits, on an empty heap or on a reported error, and main reaches its end.
C4_CompilationTerminates == <>(pc = "exit")

IsLoad == IsDispatch /\ last.type = "Load_File"
             /\ last.state \in { Entity_State_Parse_Builtin, Entity_State_Parse }

NoDuplicates(seq) == Cardinality(Range(seq)) = Len(seq)

\* C6: each path is registered at most once and parsed exactly once, when it is
\* registered; a load of a registered path succeeds and registers, parses,
\* inserts and reports nothing.
C6_LoadedOnce ==
    /\ NoDuplicates(loaded_files)
    /\ \A p \in AllPaths : parsed[p] = (IF p \in Range(loaded_files) THEN 1 ELSE 0)
    /\ (IsLoad /\ last.known) =>
          /\ last.ret
          /\ last.registered = 0
          /\ last.inserted = 0
          /\ last.reported = << >>
          /\ entities[last.ent].state = Entity_State_Finalized

C6_Witness == IsLoad /\ last.known /\ last.state = Entity_State_Parse

\* C7: a load whose file cannot be opened reports 'Failed to open file' exactly
\* when cycle_detected is set and never registers the file; while cycle_detected
\* is not set a Parse-state load reports nothing, stays in state Parse and is
\* back in the heap.
C7_FailedOpen ==
    (IsLoad /\ ~last.ret) =>
        /\ (FailedToOpen(last.file) \in Range(last.reported)) <=> last.cyc
        /\ last.registered = 0
        /\ last.file \notin Range(loaded_files)
        /\ (~last.cyc /\ last.state = Entity_State_Parse) =>
              /\ last.reported = << >>
              /\ errors = << >>
              /\ entities[last.ent].state = Entity_State_Parse
              /\ heap[last.ent] >= 1

C7_Witness ==
    IsLoad /\ ~last.ret /\ ~last.cyc /\ last.state = Entity_State_Parse /\ pc = "compile"

MissingCommandLineFile == \E i \in DOMAIN options.files : options.files[i] \notin fs

AllMissingReported ==
    \A i \in DOMAIN options.files :
        options.files[i] \notin fs => FailedToOpen(options.files[i]) \in Range(errors)

\* C8 as stated: a compilation with a command-line file that cannot be opened
\* ends with 'Failed to open file' reported for it, the error result and no
\* output.
C8_MissingFileReported ==
    (MissingCommandLineFile /\ pc = "exit") =>
        (AllMissingReported /\ result = ONYX_COMPILER_PROGRESS_ERROR /\ output = {})

\* C8, amended: a compilation with a command-line file that cannot be opened
\* eventually ends with the error result and without output; 'Failed to open
\* file' is reported for the file if the compilation got as far as dump_cycles.
C8_MissingFileEndsInError ==
    MissingCommandLineFile ~>
        (/\ pc = "exit"
         /\ result = ONYX_COMPILER_PROGRESS_ERROR
         /\ output = {}
         /\ onyx_has_errors(errors)
         /\ cycle_detected => AllMissingReported)

C8_Witness ==
    MissingCommandLineFile /\ pc = "exit" /\ cycle_detected /\ AllMissingReported

Consecutive == IsDispatch /\ prev # NoDispatch

\* C9 as stated: each dispatched entity's (state, id) key is at least the key of
\* the entity dispatched before it.
C9_DispatchOrder ==
    Consecutive => KeyLeq(prev.state, prev.id, last.state, last.ent)

\* C9, amended: the key of a dispatched entity is at least the key of the entity
\* dispatched before it whenever that earlier dispatch inserted no new entity
\* into the heap.
C9_DispatchOrderWithoutInsertion ==
    (Consecutive /\ prev.inserted = 0)
        => KeyLeq(prev.state, prev.id, last.state, last.ent)

C9_Witness ==
    /\ Consecutive /\ prev.inserted = 0
    /\ prev.id # last.ent
    /\ prev.state = Entity_State_Parse
    /\ last.state = Entity_State_Parse

\* C10 as stated: every dispatch strictly increases the macro_attempts of the
\* dispatched entity.
C10_EveryDispatchCounts ==
    (IsDispatch /\ last.macro < MaxAttempts) =>
        entities[last.ent].macro_attempts > last.macro

DispatcherLeavesAttempts ==
    \/ last.state \in { Entity_State_Error, Entity_State_Parse_Builtin }
    \/ last.state = Entity_State_Parse /\ last.changed
    \/ last.state = Entity_State_Code_Gen /\ options.action = "check"

\* C10, amended: macro_attempts never decreases; a Parse dispatch whose load
\* fails increases it by one; the dispatches process_entity decides itself
\* (Error, ParseBuiltin, a successful Parse, CodeGen under check) leave it
\* unchanged.
C10_AttemptsCountFailedLoads ==
    IsDispatch =>
        /\ entities[last.ent].macro_attempts >= last.macro
        /\ (last.state = Entity_State_Parse /\ ~last.changed)
              => entities[last.ent].macro_attempts = IncAttempts(last.macro)
        /\ DispatcherLeavesAttempts => entities[last.ent].macro_attempts = last.macro

C10_Witness ==
    /\ IsDispatch /\ last.state = Entity_State_Parse /\ ~last.changed
    /\ last.macro = 0
    /\ entities[last.ent].macro_attempts = 1

\* C11: a dispatch of an entity in state Error reports the error and leaves the
\* entity in state Failed and out of the heap.
C11_ErrorDispatchFails ==
    (IsDispatch /\ last.state = Entity_State_Error) =>
        /\ last.reported # << >>
        /\ entities[last.ent].state = Entity_State_Failed
        /\ heap[last.ent] = 0

\* C12: under the check action a dispatch of an entity in state Code_Gen moves
\* it to Finalized without calling the emitter, and the run creates no output
\* file and never calls onyx_flush_module.
C12_CheckWritesNothing ==
    options.action = "check" =>
        /\ output = {}
        /\ flush_result = NotCalled
        /\ pc # "flush"
        /\ (IsDispatch /\ last.state = Entity_State_Code_Gen) =>
              /\ ~last.emitted
              /\ last.changed
              /\ entities[last.ent].state = Entity_State_Finalized

C12_Witness ==
    /\ options.action = "check"
    /\ last.kind = "main" /\ last.state = Entity_State_Code_Gen
    /\ pc = "exit" /\ result = ONYX_COMPILER_PROGRESS_SUCCESS

\* return compiler_progress != ONYX_COMPILER_PROGRESS_SUCCESS
ExitStatus == IF result # ONYX_COMPILER_PROGRESS_SUCCESS THEN 1 ELSE 0

\* the requested action succeeded: the compilation did and, for a build, the
\* output was written
ActionSucceeded ==
    /\ errors = << >>
    /\ InHeap(heap) = {}
    /\ options.action = "compile" => flush_result = ONYX_COMPILER_PROGRESS_SUCCESS

\* C13: main exits with status 0 exactly when the action succeeded; a build
\* whose output cannot be created ends with the failed-output status, for which
\* main prints 'Failed to open file for writing', and a status other than 0.
C13_ExitStatus ==
    pc = "exit" =>
        /\ ExitStatus = 0 <=> ActionSucceeded
        /\ flush_result = ONYX_COMPILER_PROGRESS_FAILED_OUTPUT
              => (result = ONYX_COMPILER_PROGRESS_FAILED_OUTPUT /\ ExitStatus # 0)

RuntimeInfoEntities == { e \in DOMAIN entities : IsRuntimeInfoEntity(entities, e) }

AllRuntimeInfoFinalized ==
    /\ Cardinality(RuntimeInfoEntities) = Len(RuntimeInfoPaths)
    /\ \A e \in RuntimeInfoEntities : entities[e].state = Entity_State_Finalized

\* C14: in each compilation initalize_special_globals is called at most once,
\* only when all five runtime-info loads are Finalized, and never for the
\* custom runtime.
C14_SpecialGlobalsOnce ==
    /\ special_inits <= 1
    /\ special_inits = 1 => (options.runtime # "custom" /\ AllRuntimeInfoFinalized)
    /\ (IsDispatch /\ last.special_init) =>
          (last.state = Entity_State_Parse /\ special_inits = 1)

C14_Witness ==
    IsDispatch /\ last.special_init /\ special_inits = 1 /\ compilations = 2

\* C15: once the five runtime-info loads are Finalized no entity in a state
\* from Introduce_Symbols to Code_Gen is dispatched before
\* initalize_special_globals has been called.
C15_InitBeforeNormalWork ==
    (/\ IsDispatch
     /\ last.state \in Entity_State_Introduce_Symbols .. Entity_State_Code_Gen
     /\ AllRuntimeInfoFinalized)
        => special_inits >= 1

\* C16 as stated: the lazy initialization has run exactly once when a
\* compilation is over.
C16_LazyInitExactlyOnce ==
    pc \in { "watch", "exit" } => lazy_inits = 1

\* C16, amended: in each compilation the lazy initialization runs at most once,
\* on a dispatch of a Parse-state entity, and has run once every Parse-state
\* dispatch is over; each compilation of a watch session starts with it not run.
C16_LazyInitOnFirstParse ==
    /\ lazy_inits <= 1
    /\ builtins_initialized <=> lazy_inits = 1
    /\ (IsDispatch /\ last.state = Entity_State_Parse) => lazy_inits = 1
    /\ (IsDispatch /\ last.lazy_init) => last.state = Entity_State_Parse
    /\ (pc = "compile" /\ last = NoDispatch) => lazy_inits = 0

C16_Witness ==
    IsDispatch /\ last.lazy_init /\ lazy_inits = 1 /\ compilations = 2

\* C18: dump_cycles never takes the top of an empty heap: at each step of its
\* loop the heap holds an entity (the main loop tests the heap before it pops).
C18_NeverPopsEmptyHeap ==
    pc = "dump" => InHeap(heap) # {}

C18_Witness ==
    last.kind = "drain" /\ pc = "dump" /\ InHeap(heap) # {}

\* the states process_entity itself leaves for Finalized
DispatcherOwn(st) ==
    \/ st \in { Entity_State_Parse_Builtin, Entity_State_Parse }
    \/ st = Entity_State_Code_Gen /\ options.action = "check"

\* C19: a step of a compilation never moves an entity backward in the phase
\* order; an entity in state Error keeps its state, and the only change
\* process_entity itself makes to an entity in state Parse_Builtin, Parse or
\* (check action) Code_Gen is to Finalized.
C19_StateMovesForward ==
    [][ compilations' = compilations =>
          \A e \in DOMAIN entities :
              /\ entities'[e].state >= entities[e].state
              /\ entities[e].state = Entity_State_Error
                    => entities'[e].state = Entity_State_Error
              /\ (DispatcherOwn(entities[e].state) /\ entities'[e].state # entities[e].state)
                    => entities'[e].state = Entity_State_Finalized ]_vars

C19_Witness ==
    /\ IsDispatch /\ last.changed /\ last.state = Entity_State_Parse
    /\ entities[last.ent].state = Entity_State_Finalized

\* the entity with id e was inserted by context_init as a load of path
IsBootLoad(e, path) ==
    /\ e \in DOMAIN entities
    /\ entities[e].origin = "boot"
    /\ entities[e].type = "Load_File"
    /\ entities[e].file = path

\* the number of runtime-info loads context_init inserts
NumRuntimeInfo == IF options.runtime # "custom" THEN Len(RuntimeInfoPaths) ELSE 0

\* the first id after the built-in globals
FirstFileId == Len(CorePaths) + NumRuntimeInfo + Len(BuiltinGlobals)

\* the ids grow in the order of the boot sequence: the two Parse_Builtin loads,
\* the five runtime-info loads unless the runtime is custom, the built-in
\* globals, the command-line files in argument order, the core module unless
\* no_core is set; nothing else comes from context_init
BootOrder ==
    /\ \A i \in DOMAIN CorePaths : IsBootLoad(i - 1, CorePaths[i])
    /\ options.runtime # "custom" =>
          \A i \in DOMAIN RuntimeInfoPaths :
              IsBootLoad(Len(CorePaths) + i - 1, RuntimeInfoPaths[i])
    /\ \A i \in DOMAIN BuiltinGlobals :
          LET e == Len(CorePaths) + NumRuntimeInfo + i - 1
          IN  /\ e \in DOMAIN entities
              /\ entities[e].origin = "boot"
              /\ entities[e].type = "Global"
              /\ entities[e].file = BuiltinGlobals[i]
    /\ \A i \in DOMAIN options.files : IsBootLoad(FirstFileId + i - 1, options.files[i])
    /\ ~options.no_core => IsBootLoad(FirstFileId + Len(options.files), CoreModulePath)
    /\ { e \in DOMAIN entities : entities[e].origin = "boot" }
          = 0 .. (FirstFileId + Len(options.files) + (IF options.no_core THEN 0 ELSE 1) - 1)

\* the dispatch before the last one was the first of the compilation
SecondDispatch ==
    /\ Consecutive
    /\ prev.id = 0
    /\ prev.state = Entity_State_Parse_Builtin

\* C17 as stated: the two Parse_Builtin loads are the first two entities
\* dispatched.
C17_BuiltinsDispatchedFirst ==
    /\ (IsDispatch /\ prev = NoDispatch) =>
          (last.ent = 0 /\ last.state = Entity_State_Parse_Builtin)
    /\ SecondDispatch => (last.ent = 1 /\ last.state = Entity_State_Parse_Builtin)

\* C17, amended: the ids follow the boot order, the load of core/builtin is
\* the first entity dispatched, and the load of core/runtime/build_opts is the
\* second unless an entity in state Error is dispatched in its place.
C17_BootOrder ==
    /\ BootOrder
    /\ (IsDispatch /\ prev = NoDispatch) =>
          (last.ent = 0 /\ last.state = Entity_State_Parse_Builtin)
    /\ (SecondDispatch /\ last.state # Entity_State_Error) =>
          (last.ent = 1 /\ last.state = Entity_State_Parse_Builtin)

C17_Witness ==
    /\ SecondDispatch
    /\ last.ent = 1
    /\ Len(options.files) = 2
    /\ options.runtime # "custom"
    /\ ~options.no_core

\* argv[i .. i + 1] is "-r nope" and compile_opts_parse reads it as a flag and
\* its value
UnknownRuntimeAt(i) ==
    /\ argv[1] \in { "compile", "build", "check", "run", "watch" }
    /\ argv[i] = "-r"
    /\ argv[i + 1] = "nope"
    /\ \A j \in 2 .. i - 1 : argv[j] \notin { "-r", "-o", "--" } \cup WasmArgs

\* an unrecognized runtime name leaves a warning and, unless a later -r changes
\* it, the Onyx runtime
UnknownRuntimeWarns ==
    \A i \in 2 .. Len(argv) - 1 :
        UnknownRuntimeAt(i) =>
            /\ parse_out # << >>
            /\ (\A j \in i + 2 .. Len(argv) : argv[j] # "-r")
                  => compile_opts.runtime = "onyx"

\* C20: when compile_opts_parse has returned, the Onyx runtime has
\* multi-threading enabled, whatever the argument vector was, and a name
\* -r / --runtime does not know left a warning and the Onyx runtime.
C20_OnyxRuntimeIsMultiThreaded ==
    parse_pc = "done" =>
        /\ compile_opts.runtime = "onyx" => compile_opts.use_multi_threading
        /\ UnknownRuntimeWarns

\* the subcommands after which compile_opts_parse runs its option loop
LoopSubcommands == { "compile", "build", "check", "run", "watch" }

\* the flags that take argv[i + 1] as their value
ValueFlags == { "-o", "--output", "-r", "--runtime" } \cup OtherValueFlags

\* the indexes from i on that the option loop reads as options, the one it
\* stops at included
RECURSIVE OptionIndexes(_, _)
OptionIndexes(av, i) ==
    IF i >= Argc(av) THEN {}
    ELSE IF av[i] = "--" \/ (av[i] \in WasmArgs /\ av[1] = "run") THEN { i }
    ELSE { i } \cup OptionIndexes(av, IF av[i] \in ValueFlags THEN i + 2 ELSE i + 1)

\* argv[k] is a "--" the option loop reads as an option
DashDashOption(k) ==
    /\ argv[1] \in LoopSubcommands
    /\ argv[k] = "--"
    /\ k \in OptionIndexes(argv, 2)

\* C21 as stated: the passthrough list is exactly the arguments after the
\* first "--" of the argument vector.
C21_AfterDashDash ==
    parse_pc = "done" =>
        \A k \in 1 .. Len(argv) :
            (argv[k] = "--" /\ \A j \in 1 .. k - 1 : argv[j] # "--")
                => compile_opts.passthrough = ArgsFrom(argv, k + 1)

\* C21, amended: a "--" the option loop reads as an option ends the parsing
\* there: the passthrough list is exactly the arguments after it, and the
\* options and the printed output are those of the argument vector cut after
\* the "--".
C21_DashDashEndsParsing ==
    parse_pc = "done" =>
        \A k \in 2 .. Len(argv) :
            DashDashOption(k) =>
                /\ arg_i = k
                /\ compile_opts.passthrough = ArgsFrom(argv, k + 1)
                /\ \E r \in compile_opts_parse(SubSeq(argv, 1, k)) :
                      /\ r.pc = "done"
                      /\ r.opts = [ compile_opts EXCEPT !.passthrough = << >> ]
                      /\ r.out = parse_out

C21_Witness ==
    /\ parse_pc = "done"
    /\ \E k \in 2 .. Len(argv) - 1 :
          DashDashOption(k) /\ argv[k + 1] \in { "-r", "--no-core", "a.onyx", "-o" }

\* a flag that takes a value is the last argument and is read as an option
MissingValue ==
    /\ argv # << >>
    /\ argv[1] \in LoopSubcommands
    /\ argv[Len(argv)] \in ValueFlags
    /\ Len(argv) \in OptionIndexes(argv, 2)

\* C22: a value-taking flag given last, without its value, ends
\* compile_opts_parse with an error message and exit(1), and the null pointer
\* argv[argc] is not taken as the value.
C22_MissingValueIsError ==
    (parse_pc \in { "done", "crashed", "exited" } /\ MissingValue) =>
        /\ parse_pc = "exited"
        /\ parse_out # << >>
        /\ compile_opts.target_file # NullArg

\* the files of the sequence of writes wr
WrittenFiles(wr) == { wr[i].file : i \in DOMAIN wr }

\* the writes of wasm modules among wr: the target and its data companion
ModuleWrites(wr) == SelectSeq(wr, LAMBDA w : w.file \in { "target", "target.data" })

\* multi-threading is enabled and post-MVP features are disabled
ThreadsWithoutPostMvp ==
    compile_opts.use_multi_threading /\ ~compile_opts.use_post_mvp_features

\* C23: onyx_flush_module writes the data companion only if multi-threading is
\* enabled and post-MVP features are disabled, and always then when it returns
\* success; the companion gets the data segment and is written before the main
\* module, which is written without it; in every other case a successful call
\* writes exactly one module, the target with its data segment.
C23_DataCompanion ==
    flush_result # NotCalled =>
        /\ "target.data" \in WrittenFiles(written) => ThreadsWithoutPostMvp
        /\ (flush_result = ONYX_COMPILER_PROGRESS_SUCCESS /\ ThreadsWithoutPostMvp)
              => ModuleWrites(written) = << Write("target.data", TRUE), Write("target", FALSE) >>
        /\ (flush_result = ONYX_COMPILER_PROGRESS_SUCCESS /\ ~ThreadsWithoutPostMvp)
              => ModuleWrites(written) = << Write("target", TRUE) >>

C23_Witness ==
    /\ flush_result = ONYX_COMPILER_PROGRESS_SUCCESS
    /\ compile_opts.use_multi_threading
    /\ ~compile_opts.use_post_mvp_features
    /\ "target.data" \in WrittenFiles(written)

\* C24: once bh_file_watch_wait has failed the loop of onyx_watch is over: no
\* do_compilation is called any more, and a compilation is started only from
\* the wait.
C24_StopEndsWatch ==
    [][ /\ pc = "exit" => (pc' = "exit" /\ compilations' = compilations)
        /\ compilations' # compilations => pc = "watch" ]_vars

C24_Witness ==
    /\ options.action = "watch"
    /\ pc = "exit"
    /\ compilations < MaxCompilations

\* C25: an entity that a main-loop dispatch left unchanged is not the next
\* entity dispatched when other entities are in the heap.
C25_NoImmediateRetry ==
    (/\ Consecutive
     /\ last.kind = "main"
     /\ prev.kind = "main"
     /\ last.inserted = 0
     /\ InHeap(heap) \ { last.ent } # {})
        => ~(last.ent = prev.id /\ last.state = prev.state)

\* C26 as stated: after every dispatch that changed the state of its entity
\* watermarked_node is unset and cycle_almost_detected is 0, and
\* cycle_almost_detected is always in 0 .. 3.
C26_ChangeClearsDetector ==
    /\ cycle_almost_detected \in 0 .. 3
    /\ (IsDispatch /\ last.changed) =>
          (watermarked_node = NoEntity /\ cycle_almost_detected = 0)

\* C26, amended: after every main-loop dispatch that changed the state of its
\* entity watermarked_node is unset and cycle_almost_detected is 0, and
\* cycle_almost_detected is always in 0 .. 3.
C26_MainLoopChangeClearsDetector ==
    /\ cycle_almost_detected \in 0 .. 3
    /\ (last.kind = "main" /\ last.changed) =>
          (watermarked_node = NoEntity /\ cycle_almost_detected = 0)

C26_Witness ==
    /\ last.kind = "main"
    /\ last.changed
    /\ last.macro > 0
    /\ highest_watermark > 0
    /\ cycle_almost_detected = 0

\* C27: a drain dispatch of dump_cycles happens with cycle_detected set, on an
\* entity whose state is before Code_Gen, and leaves no copy of that entity in
\* the heap: it is the only drain dispatch of the entity and the entity is not
\* inserted again.
C27_DrainOnce ==
    last.kind = "drain" =>
        /\ cycle_detected
        /\ last.state < Entity_State_Code_Gen
        /\ heap[last.ent] = 0

\* the entities context_init inserts in state Parse_Builtin: the first ones
ParseBuiltinEntities == { e \in DOMAIN entities : e < Len(CorePaths) }

\* C30: the dispatch of an entity in state Parse_Builtin changes its state to
\* Finalized whether the load succeeded or not, counts no macro attempt and
\* leaves the entity out of the heap; an entity inserted in state
\* Parse_Builtin is either still there, once in the heap, or Finalized and
\* out of the heap, so it is dispatched once.
C30_ParseBuiltinNeverYields ==
    /\ (IsDispatch /\ last.state = Entity_State_Parse_Builtin) =>
          /\ last.changed
          /\ ~last.macro_yield
          /\ last.ent \in ParseBuiltinEntities
          /\ entities[last.ent].state = Entity_State_Finalized
          /\ entities[last.ent].macro_attempts = 0
    /\ \A e \in ParseBuiltinEntities :
          \/ entities[e].state = Entity_State_Parse_Builtin /\ heap[e] = 1
          \/ entities[e].state = Entity_State_Finalized /\ heap[e] = 0

C30_Witness ==
    /\ IsDispatch
    /\ last.state = Entity_State_Parse_Builtin
    /\ ~last.ret
    /\ entities[last.ent].state = Entity_State_Finalized
    /\ heap[last.ent] = 0

\* the copies of the entity dispatched last that the heap holds beyond those
\* left by entity_heap_remove_top
Reinserted == heap[last.ent] - last.copies

\* C29: the main loop dispatches only while no error is reported, and a
\* main-loop dispatch after which (and after whose detector step) an error is
\* reported ends onyx_compile with the error result: control is past the
\* compilation, nothing is flushed, and the heap holds no copy of the
\* dispatched entity beyond those the detector step left.
C29_AbortBetweenDispatches ==
    /\ pc = "compile" => ~onyx_has_errors(errors)
    /\ (last.kind = "main" /\ onyx_has_errors(errors) /\ pc # "dump") =>
          /\ pc \in { "watch", "exit" }
          /\ result = ONYX_COMPILER_PROGRESS_ERROR
          /\ flush_result = NotCalled
          /\ Reinserted = (IF last.lap THEN 1 ELSE 0)

C29_Witness ==
    /\ last.kind = "main"
    /\ last.reported # << >>
    /\ ~last.changed
    /\ entities[last.ent].state \notin { Entity_State_Finalized, Entity_State_Failed }
    /\ heap[last.ent] = 0
    /\ InHeap(heap) # {}
    /\ pc = "exit"
    /\ result = ONYX_COMPILER_PROGRESS_ERROR

\* a dispatch that called process_load_entity and got 0 from it
LoadNoProgress ==
    /\ IsDispatch
    /\ last.type \in { "Load_File" } \cup LoadAllTypes
    /\ last.state \in { Entity_State_Parse_Builtin, Entity_State_Parse }
    /\ ~last.ret

\* C28: a load dispatch in which process_load_entity returned 0 inserted no
\* entity into the heap and registered no file in loaded_files.
C28_NoPartialCommit ==
    LoadNoProgress => (last.inserted = 0 /\ last.registered = 0)

\* C31 as stated: after every dispatch highest_watermark is at least the
\* macro_attempts of every entity (an entity not dispatched yet has 0).
C31_WatermarkIsLargest ==
    IsDispatch => \A e \in DOMAIN entities : highest_watermark >= entities[e].macro_attempts

\* C31, amended: highest_watermark never decreases, and it changes only in a
\* main-loop dispatch that leaves its entity unchanged and makes it the
\* watermarked node, to the macro_attempts of that entity.
C31_WatermarkOfWatermarkedNode ==
    [][ highest_watermark' # highest_watermark =>
          /\ highest_watermark' > highest_watermark
          /\ last'.kind = "main"
          /\ ~last'.changed
          /\ watermarked_node # last'.ent
          /\ watermarked_node' = last'.ent
          /\ highest_watermark' = entities'[last'.ent].macro_attempts ]_vars

C31_Witness ==
    /\ last.kind = "main"
    /\ last.lap
    /\ highest_watermark > 0
    /\ entities[last.ent].macro_attempts > highest_watermark

\* C32: a main-loop iteration inserts the dispatched entity at most once, and
\* no entity is in the heap more than once.
C32_NoDuplicateInHeap ==
    /\ (last.kind = "main" /\ pc # "dump") => Reinserted <= 1
    /\ \A e \in DOMAIN heap : heap[e] <= 1

\* C33: when onyx_compile has returned the success result every entity that
\* was inserted into the heap is Finalized.
C33_SuccessMeansAllFinalized ==
    result = ONYX_COMPILER_PROGRESS_SUCCESS =>
        \A e \in DOMAIN entities : entities[e].state = Entity_State_Finalized

\* a compilation has been set up and has dispatched nothing yet
CompilationStart == pc = "compile" /\ last = NoDispatch

\* C34: every compilation starts with watermarked_node unset,
\* highest_watermark 0, cycle_almost_detected 0 and cycle_detected unset.
C34_DetectorResetAtStart ==
    CompilationStart =>
        /\ watermarked_node = NoEntity
        /\ highest_watermark = 0
        /\ cycle_almost_detected = 0
        /\ ~cycle_detected

\* C35: cleanup_compilation runs once per do_compilation: while a
\* compilation runs its resources are initialized and not released, once it
\* is over they have been released exactly once.
C35_CleanupOncePerCompilation ==
    IF pc \in { "watch", "exit" }
    THEN ~live /\ cleanups = 1
    ELSE pc # "parse" => (live /\ cleanups = 0)

\* C36: when onyx_flush_module has returned, every file it created has been
\* closed exactly once and no other file has been closed.
C36_EveryFileClosedOnce ==
    flush_result # NotCalled =>
        \A f \in OutputFiles : closed[f] = (IF f \in output THEN 1 ELSE 0)

====
